---- MODULE Spec2Model ----
(***************************************************************************)
(* The publish router of src/src/functions.ts: publishOps and the helper   *)
(* ensurePersonalSpace it calls, as a state machine with one step per      *)
(* await.  The SDK, the GraphQL API, the wallet and the chain are the      *)
(* environment: each external call either throws or returns one of the     *)
(* values that collaborator can produce.                                   *)
(***************************************************************************)
EXTENDS Integers, Sequences, FiniteSets, TLC

\* ---------------------------------------------------------------- bounds
\* longest operation batch handed to publishOps
MaxOps == 2
\* longest membersList / editorsList the Space Directory reports
MaxList == 1

\* ------------------------------------------------------------ value model
\* An optional value (undefined / null in the source) is a sequence of
\* length 0 or 1.
None == <<>>
Some(x) == <<x>>

SeqsUpTo(S, n) == UNION {[1..k -> S] : k \in 0..n}

\* Invocations of publishOps that may be in flight.
Procs == {1, 2}

\* The two wallet resolvers give different accounts for one private key.
SmartAddress == "0xsmart"
EoaAddress == "0xeoa"
Addresses == {SmartAddress, EoaAddress}

\* Space ids (dashless lower-case hex strings, abbreviated).
ZeroId == "00"
PersonalIdOf(address) == IF address = SmartAddress THEN "aa" ELSE "bb"
DaoId == "dd"
GhostId == "ee"
PersonalIds == {PersonalIdOf(a) : a \in Addresses}
DaoAddress == "0xdao"

Ops == {"op1", "op2"}
Batches == SeqsUpTo(Ops, MaxOps)

\* PublishConfig: useSmartAccount, network and spaceId are optional; an
\* omitted spaceId is the empty (falsy) string.
Configs ==
  [ops : Batches,
   editName : {"edit"},
   useSmartAccount : {None, Some(TRUE), Some(FALSE)},
   network : {None, Some("TESTNET"), Some("MAINNET")},
   spaceId : {"", DaoId, GhostId} \cup PersonalIds]

\* A destructuring default: the default applies when the field is omitted.
Default(opt, d) == IF opt = None THEN d ELSE opt[1]

\* A bytes16 value as the registry returns it: "0x" followed by the digits.
Hex(id) == <<"0x", id>>
\* spaceIdHex.slice(2, 34).toLowerCase(): the digits without the prefix.
SliceLower(hex) == hex[2]
\* `0x${id}`
Prefix0x(id) == <<"0x", id>>

\* Values an external call can throw: an Error with a message, or a value
\* that is no Error.
Thrown ==
  {[isError |-> TRUE, message |-> <<"downstream failure">>],
   [isError |-> FALSE, message |-> <<>>]}

\* A message is a sequence of fragments; it contains a phrase when the
\* phrase is one of them.
Contains(message, phrase) == \E i \in DOMAIN message : message[i] = phrase

VARIABLES
  frame,      \* per invocation: position and locals of publishOps
  calls,      \* per invocation: the external calls made, in order
  registry,   \* chain: address -> whether it owns a personal space
  txCount,    \* chain: transactions submitted so far
  editCount,  \* content store: edits uploaded so far
  daoMembers, \* chain: the personal spaces now member or editor of the DAO
  graph,      \* knowledge graph: the entities the API can find
  helper      \* position, locals and call log of a query/prompt helper call

vars == <<frame, calls, registry, txCount, editCount, daoMembers, graph, helper>>

IdleFrame ==
  [pc |-> "idle",
   config |-> None,
   walletClient |-> None,
   hasSpace |-> None,
   spaceId |-> "",
   spaceData |-> None,
   personalSpaceData |-> None,
   callerSpaceId |-> "",
   consulted |-> FALSE,
   pub |-> None,
   txHash |-> 0,
   result |-> None,
   threw |-> FALSE]

\* No query/prompt helper has been called.
IdleHelper ==
  [fn |-> "idle",
   pc |-> "idle",
   propertyIds |-> <<>>,
   name |-> <<>>,
   existingId |-> None,
   dataType |-> <<>>,
   rounds |-> 0,
   result |-> None,
   log |-> <<>>]

Init ==
  /\ frame = [p \in Procs |-> IdleFrame]
  /\ calls = [p \in Procs |-> <<>>]
  /\ registry \in [Addresses -> BOOLEAN]
  /\ txCount = 0
  /\ editCount = 0
  /\ daoMembers \in SUBSET PersonalIds
  /\ graph = {}
  /\ helper = IdleHelper

\* ------------------------------------------------------------- helpers
\* An external call is logged with its argument and whether it returned
\* (ok) or threw.
Cfg(p) == frame[p].config[1]
Network(p) == Default(Cfg(p).network, "TESTNET")

\* variant: the chain is read through the RPC endpoint of the chosen network
Endpoint_ByNetwork(api, network) ==
  CASE api = "gql" -> "API_URL"
    [] api \in {"readContract", "waitForTransactionReceipt"} ->
         IF network = "MAINNET" THEN "MAINNET_RPC_URL" ELSE "TESTNET_RPC_URL"
    [] OTHER -> "sdk"

\* Where a call goes for an invocation with the given network option: gql
\* fetches API_URL, the public client of createGeoPublicClient talks to
\* TESTNET_RPC_URL, everything else is left to the SDK.
Endpoint(api, network) ==
  CASE api = "gql" -> "API_URL"
    [] api \in {"readContract", "waitForTransactionReceipt"} -> "TESTNET_RPC_URL"
    [] OTHER -> "sdk"

Call(p, api, arg, ok) ==
  calls' = [calls EXCEPT ![p] = Append(@, [api |-> api, arg |-> arg, ok |-> ok,
                                           at |-> Endpoint(api, Network(p))])]

Set(p, f) == frame' = [frame EXCEPT ![p] = f]

Wallet(p) == frame[p].walletClient[1]
\* variant: no default, an omitted useSmartAccount is falsy
UseSmartAccount_NoDefault(p) == Cfg(p).useSmartAccount = Some(TRUE)
\* useSmartAccount = true (destructuring default)
UseSmartAccount(p) == Default(Cfg(p).useSmartAccount, TRUE)

\* catch (error): error instanceof Error ? error.message : "Unknown error"
ErrorMessage(e) == IF e.isError THEN e.message ELSE <<"Unknown error">>

\* variant: the failure result also carries an (empty) transaction hash
FailureResult_WithHash(e) ==
  [success |-> FALSE, error |-> ErrorMessage(e), transactionHash |-> 0]

FailureResult(e) == [success |-> FALSE, error |-> ErrorMessage(e)]

SuccessResult(editId, cid, txHash, spaceId) ==
  [success |-> TRUE, editId |-> editId, cid |-> cid,
   transactionHash |-> txHash, spaceId |-> spaceId]

\* variant: the catch block handles Errors only and rethrows anything else
Catch_Rethrow(p, f, e) ==
  IF e.isError
    THEN Set(p, [f EXCEPT !.pc = "done",
                   !.result = Some([success |-> FALSE, error |-> e.message])])
    ELSE Set(p, [f EXCEPT !.pc = "done", !.threw = TRUE])

\* variant: the catch block swallows the value and the body goes on where
\* it stood
Catch_Resume(p, f, e) == Set(p, f)

\* The try/catch of publishOps: a value thrown in the body, with the locals
\* as they stand (f), becomes the returned failure result; nothing reaches
\* the caller as an exception.
Catch(p, f, e) ==
  Set(p, [f EXCEPT !.pc = "done", !.result = Some(FailureResult(e))])

Error(message) == [isError |-> TRUE, message |-> message]

\* ------------------------------------------------------- the environment
\* What the Space Directory can answer to space(id: ...): no space (an id it
\* does not know, or one it has not indexed yet), the personal space of an
\* address that owns one, or the DAO space with some type and member lists
\* that between them name the personal spaces listed for it at that moment.
MemberEntries == {[memberSpaceId |-> id] : id \in PersonalIds}
MemberLists == {None} \cup {Some(l) : l \in SeqsUpTo(MemberEntries, MaxList)}
\* Types reported for a space that is no personal space: the DAO kind, a
\* missing type, and a kind the code does not know.
DaoTypes == {"DAO", "undefined", "personal"}

\* The ids a reported list names; a missing list names none.
ListedIds(list) ==
  IF list = None THEN {} ELSE {list[1][i].memberSpaceId : i \in DOMAIN list[1]}

SpaceByIdResponses(id, reg, listed) ==
  {[space |-> None]}
  \cup {[space |-> Some([type |-> "PERSONAL", address |-> a,
                         membersList |-> None, editorsList |-> None])] :
          a \in {b \in Addresses : reg[b] /\ PersonalIdOf(b) = id}}
  \cup {[space |-> Some([type |-> t, address |-> DaoAddress,
                         membersList |-> lists[1], editorsList |-> lists[2]])] :
          t \in {u \in DaoTypes : id = DaoId},
          lists \in {l \in MemberLists \X MemberLists :
                      ListedIds(l[1]) \cup ListedIds(l[2]) = listed}}

\* What the Space Directory can answer to spaces(filter: address is ...): a
\* missing list, or a list that holds the caller's personal space only when
\* the address owns one.
SpacesByAddressResponses(address, reg) ==
  LET personal == [id |-> PersonalIdOf(address), type |-> "PERSONAL"]
      other == [id |-> DaoId, type |-> "DAO"]
  IN  {None, Some(<<>>), Some(<<other>>)}
      \cup (IF reg[address] THEN {Some(<<personal>>), Some(<<other, personal>>)} ELSE {})

\* The SDK publishers upload the edit and return its ids and the call to make.
PublisherResult(kind, target, n) ==
  [cid |-> <<"cid", n>>, editId |-> n, to |-> target, calldata |-> <<kind, n>>]

\* ------------------------------------------------------------ publishOps
Invoke(p) ==
  /\ frame[p].pc = "idle"
  /\ \E cfg \in Configs :
       Set(p, [IdleFrame EXCEPT !.pc = "wallet", !.config = Some(cfg)])
  /\ UNCHANGED <<calls, registry, txCount, editCount, daoMembers, graph, helper>>

\* variant: the personal space is ensured whatever the target
SpaceIdSupplied_Ignored(cfg) == FALSE

\* config.spaceId || (await ensurePersonalSpace(...))
SpaceIdSupplied(cfg) == cfg.spaceId # ""

\* Step 1: create the wallet client; Step 2 starts.
ResolverFor(useSmartAccount) ==
  IF useSmartAccount THEN "getSmartAccountWalletClient" ELSE "getWalletClient"

AddressOf(resolver) ==
  IF resolver = "getSmartAccountWalletClient" THEN SmartAddress ELSE EoaAddress

ResolveWallet(p) ==
  /\ frame[p].pc = "wallet"
  /\ LET resolver == ResolverFor(UseSmartAccount(p))
         client == [resolver |-> resolver, address |-> AddressOf(resolver)]
         f == [frame[p] EXCEPT !.walletClient = Some(client)]
     IN  \/ /\ Call(p, resolver, None, FALSE)
            /\ \E e \in Thrown : Catch(p, frame[p], e)
         \/ /\ Call(p, resolver, None, TRUE)
            /\ IF SpaceIdSupplied(Cfg(p))
                 THEN Set(p, [f EXCEPT !.pc = "gqlSpace", !.spaceId = Cfg(p).spaceId])
                 ELSE Set(p, [f EXCEPT !.pc = "hasSpace"])
  /\ UNCHANGED <<registry, txCount, editCount, daoMembers, graph, helper>>

\* ---------------------------------------------------- ensurePersonalSpace
\* variant: the negation dropped (if (hasSpace))
NeedsCreate_Inverted(hasSpace) == hasSpace

\* variant: the space is created without looking at hasSpace
NeedsCreate_Always(hasSpace) == TRUE

\* if (!hasSpace)
NeedsCreate(hasSpace) == ~hasSpace

HasSpace(p) ==
  /\ frame[p].pc = "hasSpace"
  /\ \/ /\ Call(p, "hasSpace", Wallet(p).address, FALSE)
        /\ \E e \in Thrown : Catch(p, frame[p], e)
     \/ /\ Call(p, "hasSpace", Wallet(p).address, TRUE)
        /\ LET hasSpace == registry[Wallet(p).address]
           IN  Set(p, [frame[p] EXCEPT !.hasSpace = Some(hasSpace),
                         !.pc = IF NeedsCreate(hasSpace) THEN "createSend"
                                                         ELSE "readContract"])
  /\ UNCHANGED <<registry, txCount, editCount, daoMembers, graph, helper>>

\* const { to, calldata } = personalSpace.createSpace()
CreateSpaceCall == [to |-> "SPACE_REGISTRY", data |-> <<"createSpace", 0>>]

\* variant: the createSpace transaction is sent only while no other
\* invocation has one sent for the same address
CreateSpaceSend_Exclusive(p) ==
  /\ frame[p].pc = "createSend"
  /\ \A q \in Procs \ {p} :
       \A i \in DOMAIN calls[q] :
         ~(/\ calls[q][i].api = "sendTransaction"
           /\ calls[q][i].arg = CreateSpaceCall
           /\ frame[q].walletClient = frame[p].walletClient)
  /\ \/ /\ Call(p, "sendTransaction", CreateSpaceCall, FALSE)
        /\ \E e \in Thrown : Catch(p, frame[p], e)
        /\ UNCHANGED txCount
     \/ /\ Call(p, "sendTransaction", CreateSpaceCall, TRUE)
        /\ txCount' = txCount + 1
        /\ Set(p, [frame[p] EXCEPT !.pc = "createWait", !.txHash = txCount + 1])
  /\ UNCHANGED <<registry, editCount, daoMembers, graph, helper>>

CreateSpaceSend(p) ==
  /\ frame[p].pc = "createSend"
  /\ \/ /\ Call(p, "sendTransaction", CreateSpaceCall, FALSE)
        /\ \E e \in Thrown : Catch(p, frame[p], e)
        /\ UNCHANGED txCount
     \/ /\ Call(p, "sendTransaction", CreateSpaceCall, TRUE)
        /\ txCount' = txCount + 1
        /\ Set(p, [frame[p] EXCEPT !.pc = "createWait", !.txHash = txCount + 1])
  /\ UNCHANGED <<registry, editCount, daoMembers, graph, helper>>

\* The receipt is returned whether the transaction succeeded or reverted;
\* a wait that throws leaves the transaction mined or not.
CreateSpaceWait(p) ==
  /\ frame[p].pc = "createWait"
  /\ \E mined \in BOOLEAN :
       /\ registry' = IF mined THEN [registry EXCEPT ![Wallet(p).address] = TRUE]
                               ELSE registry
       /\ \/ /\ Call(p, "waitForTransactionReceipt", frame[p].txHash, FALSE)
             /\ \E e \in Thrown : Catch(p, frame[p], e)
          \/ /\ Call(p, "waitForTransactionReceipt", frame[p].txHash, TRUE)
             /\ Set(p, [frame[p] EXCEPT !.pc = "readContract"])
  /\ UNCHANGED <<txCount, editCount, daoMembers, graph, helper>>

\* addressToSpaceId, then spaceIdHex.slice(2, 34).toLowerCase()
ReadContract(p) ==
  /\ frame[p].pc = "readContract"
  /\ LET address == Wallet(p).address
         spaceIdHex == Hex(IF registry[address] THEN PersonalIdOf(address) ELSE ZeroId)
     IN  \/ /\ Call(p, "readContract", address, FALSE)
            /\ \E e \in Thrown : Catch(p, frame[p], e)
         \/ /\ Call(p, "readContract", address, TRUE)
            /\ Set(p, [frame[p] EXCEPT !.pc = "gqlSpace",
                         !.spaceId = SliceLower(spaceIdHex)])
  /\ UNCHANGED <<registry, txCount, editCount, daoMembers, graph, helper>>

\* ----------------------------------------------- publishOps, steps 3 to 5
\* if (!spaceData.space) throw new Error(`Space ${spaceId} not found`)
SpaceMissing(spaceData) == spaceData.space = None

\* variant: another wording of the error
NotFoundMessage_Reworded(spaceId) == <<"Space", spaceId, "does not exist">>

NotFoundMessage(spaceId) == <<"Space", spaceId, "not found">>

\* variant: the comparison inverted (spaceType !== "PERSONAL")
Route_Inverted(spaceType) ==
  IF spaceType # "PERSONAL" THEN "publishEdit" ELSE "gqlCaller"

\* variant: the DAO branch proposes without resolving the caller's space
Route_SkipLookup(spaceType) ==
  IF spaceType = "PERSONAL" THEN "publishEdit" ELSE "proposeEdit"

\* variant: the type is compared whatever its letter case
Route_AnyCase(spaceType) ==
  IF spaceType \in {"PERSONAL", "personal"} THEN "publishEdit" ELSE "gqlCaller"

\* if (spaceType === "PERSONAL") ... else ...: the next await
Route(spaceType) == IF spaceType = "PERSONAL" THEN "publishEdit" ELSE "gqlCaller"

\* Step 3: query the space type.
GqlSpace(p) ==
  /\ frame[p].pc = "gqlSpace"
  /\ \/ /\ Call(p, "gql", <<"space", frame[p].spaceId>>, FALSE)
        /\ \E e \in Thrown : Catch(p, frame[p], e)
     \/ /\ Call(p, "gql", <<"space", frame[p].spaceId>>, TRUE)
        /\ \E spaceData \in SpaceByIdResponses(frame[p].spaceId, registry, daoMembers) :
             LET f == [frame[p] EXCEPT !.spaceData = Some(spaceData)]
             IN  IF SpaceMissing(spaceData)
                   THEN Catch(p, f, Error(NotFoundMessage(frame[p].spaceId)))
                   ELSE Set(p, [f EXCEPT !.pc = Route(spaceData.space[1].type)])
  /\ UNCHANGED <<registry, txCount, editCount, daoMembers, graph, helper>>

Space(p) == frame[p].spaceData[1].space[1]

\* variant: the batch is handed over with its first operation moved last
PublishEditArgs_Rotated(p) ==
  [name |-> Cfg(p).editName, spaceId |-> frame[p].spaceId,
   ops |-> IF Cfg(p).ops = <<>> THEN <<>> ELSE Tail(Cfg(p).ops) \o <<Head(Cfg(p).ops)>>,
   author |-> Wallet(p).address, network |-> Network(p)]

\* Step 4, personal space.
PublishEditArgs(p) ==
  [name |-> Cfg(p).editName, spaceId |-> frame[p].spaceId, ops |-> Cfg(p).ops,
   author |-> Wallet(p).address, network |-> Network(p)]

\* variant: a failed upload is attempted once more before giving up
PublishEdit_Retry(p) ==
  /\ frame[p].pc = "publishEdit"
  /\ \/ /\ Call(p, "publishEdit", PublishEditArgs(p), FALSE)
        /\ IF \A i \in DOMAIN calls[p] : calls[p][i].api # "publishEdit"
             THEN UNCHANGED frame
             ELSE \E e \in Thrown : Catch(p, frame[p], e)
        /\ UNCHANGED editCount
     \/ /\ Call(p, "publishEdit", PublishEditArgs(p), TRUE)
        /\ editCount' = editCount + 1
        /\ Set(p, [frame[p] EXCEPT !.pc = "sendTx",
                     !.pub = Some(PublisherResult("publish", "SPACE_REGISTRY", editCount + 1))])
  /\ UNCHANGED <<registry, txCount, daoMembers, graph, helper>>

PublishEdit(p) ==
  /\ frame[p].pc = "publishEdit"
  /\ \/ /\ Call(p, "publishEdit", PublishEditArgs(p), FALSE)
        /\ \E e \in Thrown : Catch(p, frame[p], e)
        /\ UNCHANGED editCount
     \/ /\ Call(p, "publishEdit", PublishEditArgs(p), TRUE)
        /\ editCount' = editCount + 1
        /\ Set(p, [frame[p] EXCEPT !.pc = "sendTx",
                     !.pub = Some(PublisherResult("publish", "SPACE_REGISTRY", editCount + 1))])
  /\ UNCHANGED <<registry, txCount, daoMembers, graph, helper>>

\* personalSpaceData.spaces?.find((s) => s.type === "PERSONAL")
RECURSIVE FindPersonal(_)
FindPersonal(list) ==
  IF list = <<>> THEN None
  ELSE IF Head(list).type = "PERSONAL" THEN Some(Head(list))
  ELSE FindPersonal(Tail(list))

\* variant: the first space of the address, whatever its type
FindCallerSpace_First(spaces) ==
  IF spaces = None \/ spaces[1] = <<>> THEN None ELSE Some(Head(spaces[1]))

FindCallerSpace(spaces) == IF spaces = None THEN None ELSE FindPersonal(spaces[1])

NoPersonalSpaceMessage(address) == <<"No personal space found for wallet", address>>

\* spaceData.space.membersList || []
OrEmpty(list) == IF list = None THEN <<>> ELSE list[1]

\* variant: only membersList is searched
IsMemberOrEditor_MembersOnly(space, callerSpaceId) ==
  LET members == OrEmpty(space.membersList)
  IN  \E i \in DOMAIN members : members[i].memberSpaceId = callerSpaceId

\* variant: the comparison with callerSpaceId dropped (.some((m) => m.memberSpaceId))
IsMemberOrEditor_AnyCandidate(space, callerSpaceId) ==
  LET allCandidates == OrEmpty(space.membersList) \o OrEmpty(space.editorsList)
  IN  allCandidates # <<>>

\* [...members, ...editors].some((m) => m.memberSpaceId === callerSpaceId)
IsMemberOrEditor(space, callerSpaceId) ==
  LET allCandidates == OrEmpty(space.membersList) \o OrEmpty(space.editorsList)
  IN  \E i \in DOMAIN allCandidates : allCandidates[i].memberSpaceId = callerSpaceId

NotAuthorizedMessage(callerSpaceId, spaceId) ==
  <<"Your personal space", callerSpaceId, "is", "not a member or editor",
    "of DAO space", spaceId>>

\* Step 4, DAO space: resolve the caller's personal space, then verify the
\* caller is a member or an editor (no await between the two).
GqlCaller(p) ==
  /\ frame[p].pc = "gqlCaller"
  /\ \/ /\ Call(p, "gql", <<"spaces", Wallet(p).address>>, FALSE)
        /\ \E e \in Thrown : Catch(p, frame[p], e)
     \/ /\ Call(p, "gql", <<"spaces", Wallet(p).address>>, TRUE)
        /\ \E spaces \in SpacesByAddressResponses(Wallet(p).address, registry) :
             LET callerSpace == FindCallerSpace(spaces)
                 g == [frame[p] EXCEPT !.personalSpaceData = Some([spaces |-> spaces])]
             IN  IF callerSpace = None
                   THEN Catch(p, g, Error(NoPersonalSpaceMessage(Wallet(p).address)))
                   ELSE LET callerSpaceId == callerSpace[1].id
                            f == [g EXCEPT !.callerSpaceId = callerSpaceId,
                                           !.consulted = TRUE]
                        IN  IF ~IsMemberOrEditor(Space(p), callerSpaceId)
                              THEN Catch(p, f, Error(NotAuthorizedMessage(callerSpaceId,
                                                                           frame[p].spaceId)))
                              ELSE Set(p, [f EXCEPT !.pc = "proposeEdit"])
  /\ UNCHANGED <<registry, txCount, editCount, daoMembers, graph, helper>>

\* variant: the author is given with the 0x prefix as well
ProposeEditArgs_AuthorPrefixed(p) ==
  [name |-> Cfg(p).editName, ops |-> Cfg(p).ops,
   author |-> Prefix0x(frame[p].callerSpaceId),
   network |-> Network(p), callerSpaceId |-> Prefix0x(frame[p].callerSpaceId),
   daoSpaceId |-> Prefix0x(frame[p].spaceId), daoSpaceAddress |-> Space(p).address]

ProposeEditArgs(p) ==
  [name |-> Cfg(p).editName, ops |-> Cfg(p).ops, author |-> frame[p].callerSpaceId,
   network |-> Network(p), callerSpaceId |-> Prefix0x(frame[p].callerSpaceId),
   daoSpaceId |-> Prefix0x(frame[p].spaceId), daoSpaceAddress |-> Space(p).address]

ProposeEdit(p) ==
  /\ frame[p].pc = "proposeEdit"
  /\ \/ /\ Call(p, "proposeEdit", ProposeEditArgs(p), FALSE)
        /\ \E e \in Thrown : Catch(p, frame[p], e)
        /\ UNCHANGED editCount
     \/ /\ Call(p, "proposeEdit", ProposeEditArgs(p), TRUE)
        /\ editCount' = editCount + 1
        /\ Set(p, [frame[p] EXCEPT !.pc = "sendTx",
                     !.pub = Some(PublisherResult("propose", Space(p).address, editCount + 1))])
  /\ UNCHANGED <<registry, txCount, daoMembers, graph, helper>>

\* variant: the transaction always goes to the space registry
EditCall_ToRegistry(p) == [to |-> "SPACE_REGISTRY", data |-> frame[p].pub[1].calldata]

\* Step 5: submit the transaction and wait for its receipt.
EditCall(p) == [to |-> frame[p].pub[1].to, data |-> frame[p].pub[1].calldata]

\* variant: an edit another invocation already published for the same
\* config is not submitted again; the earlier result is returned
SendTx_Dedup(p) ==
  /\ frame[p].pc = "sendTx"
  /\ IF \E q \in Procs \ {p} :
          /\ frame[q].pc = "done"
          /\ frame[q].result # None
          /\ frame[q].result[1].success
          /\ frame[q].config = frame[p].config
       THEN /\ \E q \in Procs \ {p} :
                 /\ frame[q].pc = "done"
                 /\ frame[q].result # None
                 /\ frame[q].result[1].success
                 /\ frame[q].config = frame[p].config
                 /\ Set(p, [frame[p] EXCEPT !.pc = "done", !.result = frame[q].result])
            /\ UNCHANGED <<calls, txCount>>
       ELSE \/ /\ Call(p, "sendTransaction", EditCall(p), FALSE)
               /\ \E e \in Thrown : Catch(p, frame[p], e)
               /\ UNCHANGED txCount
            \/ /\ Call(p, "sendTransaction", EditCall(p), TRUE)
               /\ txCount' = txCount + 1
               /\ Set(p, [frame[p] EXCEPT !.pc = "waitTx", !.txHash = txCount + 1])
  /\ UNCHANGED <<registry, editCount, daoMembers, graph, helper>>

\* variant: the caller's listing is looked at again before the submission
SendTx_Recheck(p) ==
  /\ frame[p].pc = "sendTx"
  /\ IF frame[p].consulted /\ frame[p].callerSpaceId \notin daoMembers
       THEN /\ Catch(p, frame[p], Error(NotAuthorizedMessage(frame[p].callerSpaceId,
                                                             frame[p].spaceId)))
            /\ UNCHANGED <<calls, txCount>>
       ELSE \/ /\ Call(p, "sendTransaction", EditCall(p), FALSE)
               /\ \E e \in Thrown : Catch(p, frame[p], e)
               /\ UNCHANGED txCount
            \/ /\ Call(p, "sendTransaction", EditCall(p), TRUE)
               /\ txCount' = txCount + 1
               /\ Set(p, [frame[p] EXCEPT !.pc = "waitTx", !.txHash = txCount + 1])
  /\ UNCHANGED <<registry, editCount, daoMembers, graph, helper>>

SendTx(p) ==
  /\ frame[p].pc = "sendTx"
  /\ \/ /\ Call(p, "sendTransaction", EditCall(p), FALSE)
        /\ \E e \in Thrown : Catch(p, frame[p], e)
        /\ UNCHANGED txCount
     \/ /\ Call(p, "sendTransaction", EditCall(p), TRUE)
        /\ txCount' = txCount + 1
        /\ Set(p, [frame[p] EXCEPT !.pc = "waitTx", !.txHash = txCount + 1])
  /\ UNCHANGED <<registry, editCount, daoMembers, graph, helper>>

\* variant: the wait gives up at once and the submitted hash is returned
WaitTx_GiveUp(p) ==
  /\ frame[p].pc = "waitTx"
  /\ \/ /\ Call(p, "waitForTransactionReceipt", frame[p].txHash, FALSE)
        /\ \E e \in Thrown : Catch(p, frame[p], e)
     \/ /\ Call(p, "waitForTransactionReceipt", frame[p].txHash, TRUE)
        /\ Set(p, [frame[p] EXCEPT !.pc = "done",
                     !.result = Some(SuccessResult(frame[p].pub[1].editId,
                                                   frame[p].pub[1].cid,
                                                   frame[p].txHash, frame[p].spaceId))])
     \/ /\ UNCHANGED calls
        /\ Set(p, [frame[p] EXCEPT !.pc = "done",
                     !.result = Some(SuccessResult(frame[p].pub[1].editId,
                                                   frame[p].pub[1].cid,
                                                   frame[p].txHash, frame[p].spaceId))])
  /\ UNCHANGED <<registry, txCount, editCount, daoMembers, graph, helper>>

WaitTx(p) ==
  /\ frame[p].pc = "waitTx"
  /\ \/ /\ Call(p, "waitForTransactionReceipt", frame[p].txHash, FALSE)
        /\ \E e \in Thrown : Catch(p, frame[p], e)
     \/ /\ Call(p, "waitForTransactionReceipt", frame[p].txHash, TRUE)
        /\ Set(p, [frame[p] EXCEPT !.pc = "done",
                     !.result = Some(SuccessResult(frame[p].pub[1].editId,
                                                   frame[p].pub[1].cid,
                                                   frame[p].txHash, frame[p].spaceId))])
  /\ UNCHANGED <<registry, txCount, editCount, daoMembers, graph, helper>>

\* --------------------------------------------------------- specification
\* The steps of an invocation that has been entered.
Run(p) ==
  \/ ResolveWallet(p)
  \/ HasSpace(p)
  \/ CreateSpaceSend(p)
  \/ CreateSpaceWait(p)
  \/ ReadContract(p)
  \/ GqlSpace(p)
  \/ PublishEdit(p)
  \/ GqlCaller(p)
  \/ ProposeEdit(p)
  \/ SendTx(p)
  \/ WaitTx(p)

Step(p) == Invoke(p) \/ Run(p)

\* One invocation of publishOps, from any state of the registry.
Next == Step(1)

Spec == Init /\ [][Next]_vars

\* ------------------------------------------------------------ observation
\* Positions in the call log of invocation p.
CallsOf(p, api) == {i \in DOMAIN calls[p] : calls[p][i].api = api}
\* gql calls by query: "space" (lookup by id) or "spaces" (reverse lookup)
GqlCalls(p, query) == {i \in CallsOf(p, "gql") : calls[p][i].arg[1] = query}
\* sendTransaction calls: the createSpace one, and the edit submission
CreateSends(p) ==
  {i \in CallsOf(p, "sendTransaction") : calls[p][i].arg.data[1] = "createSpace"}
EditSends(p) == CallsOf(p, "sendTransaction") \ CreateSends(p)
PublisherCalls(p) == CallsOf(p, "publishEdit") \cup CallsOf(p, "proposeEdit")

Done(p) == frame[p].pc = "done"
Returned(p) == Done(p) /\ frame[p].result # None
Result(p) == frame[p].result[1]
Failed(p) == Returned(p) /\ ~Result(p).success
Succeeded(p) == Returned(p) /\ Result(p).success
AllCallsOk(p) == \A i \in DOMAIN calls[p] : calls[p][i].ok

\* The governance lookup answered, with a space / with no space.
SpaceReported(p) == frame[p].spaceData # None /\ frame[p].spaceData[1].space # None
NoSpaceReported(p) == frame[p].spaceData # None /\ frame[p].spaceData[1].space = None
ReportedPersonal(p) == SpaceReported(p) /\ Space(p).type = "PERSONAL"
ReportedDao(p) == SpaceReported(p) /\ Space(p).type # "PERSONAL"

CallerListed(p) ==
  frame[p].callerSpaceId \in
    ListedIds(Space(p).membersList) \cup ListedIds(Space(p).editorsList)

\* The reverse lookup answered and found a / no PERSONAL space of the caller.
CallerLookedUp(p) == frame[p].personalSpaceData # None
CallerHasPersonal(p) ==
  /\ CallerLookedUp(p)
  /\ frame[p].personalSpaceData[1].spaces # None
  /\ \E i \in DOMAIN frame[p].personalSpaceData[1].spaces[1] :
       frame[p].personalSpaceData[1].spaces[1][i].type = "PERSONAL"

\* ----------------------------------------------------------------- claims

\* C1: when the Space Directory reports the target with type PERSONAL, the
\* personal-space publisher is called exactly once (as soon as the branch is
\* taken) and the DAO publisher never, whatever the batch.
C1_PersonalRoute ==
  \A p \in Procs :
    ReportedPersonal(p) =>
      /\ CallsOf(p, "proposeEdit") = {}
      /\ Cardinality(CallsOf(p, "publishEdit")) =
           IF frame[p].pc = "publishEdit" THEN 0 ELSE 1

C1_Witness ==
  /\ Succeeded(1) /\ ReportedPersonal(1)
  /\ Cfg(1).ops # <<>>
  /\ Cardinality(CallsOf(1, "publishEdit")) = 1

\* C2: a DAO-kind target whose lists name the caller's resolved personal space
\* id in neither membersList nor editorsList: the call returns success:false
\* with an error containing "not a member or editor", the DAO publisher is
\* never invoked and no transaction is submitted.
C2_Unauthorized ==
  \A p \in Procs :
    (Done(p) /\ ReportedDao(p) /\ CallerHasPersonal(p) /\ ~CallerListed(p)) =>
      /\ Failed(p)
      /\ Contains(Result(p).error, "not a member or editor")
      /\ CallsOf(p, "proposeEdit") = {}
      /\ CallsOf(p, "sendTransaction") = {}

C2_Witness ==
  /\ Done(1) /\ ReportedDao(1) /\ CallerHasPersonal(1) /\ ~CallerListed(1)
  /\ Space(1).editorsList # None /\ Space(1).editorsList[1] # <<>>
  /\ Failed(1)

\* The createSpace transaction was submitted by ensurePersonalSpace only
\* because spaceId was omitted and hasSpace answered false.
CreateJustified(p) == Cfg(p).spaceId = "" /\ frame[p].hasSpace = Some(FALSE)

\* C3 as stated: when the Space Directory returns no space for the target id,
\* the call returns success:false with an error containing "not found", no
\* publisher is called and no transaction at all is submitted.
C3_Original ==
  \A p \in Procs :
    (Done(p) /\ NoSpaceReported(p)) =>
      /\ Failed(p)
      /\ Contains(Result(p).error, "not found")
      /\ PublisherCalls(p) = {}
      /\ CallsOf(p, "sendTransaction") = {}

\* C3 amended: when the Space Directory returns no space for the target id,
\* the call returns success:false with an error containing "not found", no
\* publisher is called and no edit transaction is submitted; the one
\* transaction that can have been submitted is the createSpace transaction of
\* ensurePersonalSpace, when spaceId was omitted and the wallet had no space.
C3_NotFound ==
  \A p \in Procs :
    (Done(p) /\ NoSpaceReported(p)) =>
      /\ Failed(p)
      /\ Contains(Result(p).error, "not found")
      /\ PublisherCalls(p) = {}
      /\ EditSends(p) = {}
      /\ CallsOf(p, "sendTransaction") # {} =>
           (CreateJustified(p) /\ Cardinality(CallsOf(p, "sendTransaction")) = 1)

C3_Witness ==
  /\ Done(1) /\ NoSpaceReported(1) /\ Failed(1)
  /\ Cardinality(CreateSends(1)) = 1
  /\ frame[1].spaceId = ZeroId

\* C4 as stated: an invocation makes at most one sendTransaction call,
\* those of ensurePersonalSpace included.
C4_Original ==
  \A p \in Procs : Cardinality(CallsOf(p, "sendTransaction")) <= 1

\* C4 amended: an invocation submits at most one edit transaction, and at
\* most one createSpace transaction before it, the latter only when spaceId
\* was omitted and the wallet had no personal space: at most two
\* sendTransaction calls, and at most one otherwise.
C4_AtMostOneEditTx ==
  \A p \in Procs :
    /\ Cardinality(EditSends(p)) <= 1
    /\ Cardinality(CreateSends(p)) <= 1
    /\ CreateSends(p) # {} => CreateJustified(p)
    /\ \A i \in CreateSends(p), j \in EditSends(p) : i < j

C4_Witness ==
  /\ Succeeded(1)
  /\ Cardinality(CreateSends(1)) = 1
  /\ Cardinality(EditSends(1)) = 1

\* C5 as stated: a failure result returned before step 5 (no edit submission
\* attempted) means nothing was submitted on-chain in the invocation.
C5_Original ==
  \A p \in Procs :
    (Failed(p) /\ EditSends(p) = {}) => CallsOf(p, "sendTransaction") = {}

\* C5 amended: a failure result returned before step 5 means no edit
\* transaction was submitted; a personal-space creation may have been
\* submitted in step 2, and nothing at all was submitted when spaceId was
\* supplied or the wallet already had (or could not be asked for) its space.
C5_NoEditTxBeforeStep5 ==
  \A p \in Procs :
    (Failed(p) /\ EditSends(p) = {}) =>
      /\ \A i \in CallsOf(p, "sendTransaction") : calls[p][i].arg = CreateSpaceCall
      /\ (Cfg(p).spaceId # "" \/ frame[p].hasSpace # Some(FALSE)) =>
           CallsOf(p, "sendTransaction") = {}

C5_Witness ==
  /\ Failed(1) /\ EditSends(1) = {}
  /\ \E i \in CreateSends(1) : calls[1][i].ok
  /\ \E i \in CallsOf(1, "publishEdit") : ~calls[1][i].ok

SuccessKeys == {"success", "editId", "cid", "transactionHash", "spaceId"}
FailureKeys == {"success", "error"}

\* C6: every returned value is a success result holding exactly editId, cid,
\* transactionHash and spaceId (those the invocation collected) and no error,
\* or a failure result holding exactly error; and one is always returned.
C6_ResultShape ==
  \A p \in Procs :
    Done(p) =>
      /\ frame[p].result # None
      /\ \/ /\ Result(p).success
            /\ DOMAIN Result(p) = SuccessKeys
            /\ Result(p).editId = frame[p].pub[1].editId
            /\ Result(p).cid = frame[p].pub[1].cid
            /\ Result(p).transactionHash = frame[p].txHash
            /\ Result(p).transactionHash # 0
            /\ Result(p).spaceId = frame[p].spaceId
            /\ Result(p).spaceId # ""
         \/ /\ ~Result(p).success
            /\ DOMAIN Result(p) = FailureKeys

C6_Witness ==
  /\ Failed(1)
  /\ frame[1].txHash # 0
  /\ Contains(Result(1).error, "Unknown error")

\* C7: no error reaches the caller: the invocation always ends by returning
\* a value, and when any external call threw, or a lookup or the membership
\* check failed, that value is a failure result.
C7_NeverThrows ==
  \A p \in Procs :
    /\ ~frame[p].threw
    /\ Done(p) =>
         /\ frame[p].result # None
         /\ (~AllCallsOk(p) \/ NoSpaceReported(p)
               \/ (CallerLookedUp(p) /\ CallsOf(p, "proposeEdit") = {})) => Failed(p)

C7_Witness ==
  /\ Failed(1)
  /\ \E i \in CallsOf(1, "waitForTransactionReceipt") :
       /\ ~calls[1][i].ok
       /\ i = Len(calls[1])
       /\ EditSends(1) # {}
  /\ Contains(Result(1).error, "Unknown error")

\* C8: for a target reported as DAO-kind the invocation makes exactly one
\* caller-space reverse lookup, and that lookup has returned before the DAO
\* publisher is called.
C8_OneReverseLookup ==
  \A p \in Procs :
    /\ Cardinality(GqlCalls(p, "spaces")) <= 1
    /\ (ReportedDao(p) /\ frame[p].pc # "gqlCaller") =>
         Cardinality(GqlCalls(p, "spaces")) = 1
    /\ \A j \in CallsOf(p, "proposeEdit") :
         \E i \in GqlCalls(p, "spaces") : i < j /\ calls[p][i].ok

C8_Witness ==
  /\ Done(1) /\ ReportedDao(1)
  /\ Cardinality(GqlCalls(1, "spaces")) = 1
  /\ Cardinality(CallsOf(1, "proposeEdit")) = 1

\* C9: for a DAO-kind target whose caller has a personal space, the DAO
\* publisher is invoked exactly when the caller's personal space id is named
\* by membersList or by editorsList (a missing list names nobody), and when
\* every downstream call then succeeds the result is success:true.
C9_MemberOrEditor ==
  \A p \in Procs :
    (Done(p) /\ ReportedDao(p) /\ CallerHasPersonal(p)) =>
      /\ CallerListed(p) <=> Cardinality(CallsOf(p, "proposeEdit")) = 1
      /\ ~CallerListed(p) => CallsOf(p, "proposeEdit") = {}
      /\ (CallerListed(p) /\ AllCallsOk(p)) => Succeeded(p)

C9_Witness ==
  /\ Succeeded(1) /\ ReportedDao(1) /\ CallerHasPersonal(1)
  /\ frame[1].callerSpaceId \in ListedIds(Space(1).editorsList)
  /\ frame[1].callerSpaceId \notin ListedIds(Space(1).membersList)
  /\ Cardinality(CallsOf(1, "proposeEdit")) = 1

\* C10: for a DAO-kind target, when the reverse lookup returns no space of
\* type PERSONAL for the caller's address, the call returns success:false
\* with the no-personal-space error, the member lists are not consulted, the
\* DAO publisher is not invoked and no transaction is submitted.
C10_NoPersonalSpace ==
  \A p \in Procs :
    (ReportedDao(p) /\ CallerLookedUp(p) /\ ~CallerHasPersonal(p)) =>
      /\ Failed(p)
      /\ Contains(Result(p).error, "No personal space found for wallet")
      /\ ~frame[p].consulted
      /\ CallsOf(p, "proposeEdit") = {}
      /\ CallsOf(p, "sendTransaction") = {}

C10_Witness ==
  /\ Failed(1) /\ ReportedDao(1) /\ CallerLookedUp(1) /\ ~CallerHasPersonal(1)
  /\ frame[1].personalSpaceData[1].spaces # None
  /\ frame[1].personalSpaceData[1].spaces[1] # <<>>

\* C11 as stated: before any publish attempt (personal or DAO) the invocation
\* has ensured that the caller's wallet has a personal space: hasSpace was
\* asked for the wallet's address and answered, and the space was created
\* when it was absent.
C11_Original ==
  \A p \in Procs :
    \A j \in PublisherCalls(p) :
      /\ \E i \in CallsOf(p, "hasSpace") : i < j /\ calls[p][i].ok
      /\ frame[p].hasSpace = Some(FALSE) =>
           \E i \in CreateSends(p) : i < j /\ calls[p][i].ok

\* C12: when spaceId is omitted and hasSpace answers false, a createSpace
\* transaction is submitted and its receipt awaited before the registry is
\* read and before any publisher is invoked; a success result then names the
\* wallet's newly registered personal space, the space the edit was published
\* to.  When hasSpace answers true, ensurePersonalSpace submits nothing.
C12_CreateThenPublish ==
  \A p \in Procs :
    /\ frame[p].hasSpace = Some(FALSE) =>
         /\ Cfg(p).spaceId = ""
         /\ \A j \in CallsOf(p, "readContract") \cup PublisherCalls(p) :
              \E i \in CreateSends(p) :
                /\ calls[p][i].ok
                /\ calls[p][i + 1].api = "waitForTransactionReceipt"
                /\ calls[p][i + 1].ok
                /\ i + 1 < j
         /\ Succeeded(p) =>
              /\ registry[Wallet(p).address]
              /\ Result(p).spaceId = PersonalIdOf(Wallet(p).address)
              /\ \E j \in CallsOf(p, "publishEdit") :
                   calls[p][j].arg.spaceId = Result(p).spaceId
              /\ CallsOf(p, "proposeEdit") = {}
    /\ frame[p].hasSpace = Some(TRUE) => CallsOf(p, "sendTransaction") \subseteq EditSends(p)

C12_Witness ==
  /\ Succeeded(1)
  /\ frame[1].hasSpace = Some(FALSE)
  /\ Cardinality(CreateSends(1)) = 1
  /\ Result(1).spaceId = PersonalIdOf(Wallet(1).address)

\* C13 as stated: an invocation makes at least one (once its target space id
\* is resolved) and at most two Space Directory reads, and all of them come
\* before any on-chain write (sendTransaction) of the invocation.
C13_Original ==
  \A p \in Procs :
    /\ Cardinality(CallsOf(p, "gql")) <= 2
    /\ (Done(p) /\ frame[p].spaceId # "") => Cardinality(CallsOf(p, "gql")) >= 1
    /\ \A i \in CallsOf(p, "gql"), j \in CallsOf(p, "sendTransaction") : i < j

\* C13 amended: an invocation that reaches step 3 makes exactly one
\* space-by-id lookup and, for a DAO target only, at most one reverse lookup
\* (so one or two reads), all before the edit transaction; a createSpace
\* transaction of step 2, when there is one, comes before them.
C13_ReadsBeforeEditTx ==
  \A p \in Procs :
    /\ Cardinality(GqlCalls(p, "space")) <= 1
    /\ Cardinality(GqlCalls(p, "spaces")) <= 1
    /\ CallsOf(p, "gql") = GqlCalls(p, "space") \cup GqlCalls(p, "spaces")
    /\ frame[p].pc \in {"publishEdit", "gqlCaller", "proposeEdit", "sendTx", "waitTx"} =>
         Cardinality(GqlCalls(p, "space")) = 1
    /\ frame[p].spaceData # None => Cardinality(GqlCalls(p, "space")) = 1
    /\ GqlCalls(p, "spaces") # {} => ReportedDao(p)
    /\ \A i \in GqlCalls(p, "space"), j \in GqlCalls(p, "spaces") : i < j
    /\ \A i \in CallsOf(p, "gql"), j \in EditSends(p) : i < j
    /\ \A i \in CreateSends(p), j \in CallsOf(p, "gql") : i < j

C13_Witness ==
  /\ Succeeded(1)
  /\ Cardinality(CallsOf(1, "gql")) = 2
  /\ Cardinality(EditSends(1)) = 1

\* The target the claim names: the supplied spaceId, else the id the registry
\* gives for the resolved wallet's address.
ExpectedTarget(p) ==
  IF Cfg(p).spaceId # "" THEN Cfg(p).spaceId
  ELSE IF registry[Wallet(p).address] THEN PersonalIdOf(Wallet(p).address) ELSE ZeroId

\* C15: the governance lookup, the publisher call and the success result all
\* use one target space id: the supplied spaceId when one is supplied,
\* otherwise the id ensurePersonalSpace read from the registry for the
\* resolved wallet's address.
C15_TargetSpaceId ==
  \A p \in Procs :
    /\ frame[p].spaceId # "" =>
         /\ frame[p].spaceId = ExpectedTarget(p)
         /\ Cfg(p).spaceId = "" => \E i \in CallsOf(p, "readContract") : calls[p][i].ok
    /\ \A i \in GqlCalls(p, "space") : calls[p][i].arg[2] = ExpectedTarget(p)
    /\ \A i \in CallsOf(p, "publishEdit") : calls[p][i].arg.spaceId = ExpectedTarget(p)
    /\ \A i \in CallsOf(p, "proposeEdit") :
         calls[p][i].arg.daoSpaceId = <<"0x", ExpectedTarget(p)>>
    /\ Succeeded(p) => Result(p).spaceId = ExpectedTarget(p)

C15_Witness ==
  /\ Succeeded(1)
  /\ Cfg(1).spaceId = ""
  /\ Cfg(1).useSmartAccount = Some(FALSE)
  /\ Result(1).spaceId = PersonalIdOf(EoaAddress)
  /\ \E i \in CallsOf(1, "publishEdit") : calls[1][i].arg.spaceId = PersonalIdOf(EoaAddress)

\* C16: an invocation resolves exactly one wallet client, once: through the
\* smart-account resolver when useSmartAccount is true or omitted, through
\* the plain resolver when it is false; the other resolver is never called.
C16_OneResolver ==
  \A p \in Procs :
    LET smart == CallsOf(p, "getSmartAccountWalletClient")
        plain == CallsOf(p, "getWalletClient")
    IN  /\ Cardinality(smart \cup plain) <= 1
        /\ smart \cup plain \subseteq {1}
        /\ frame[p].pc \notin {"idle", "wallet"} =>
             IF Cfg(p).useSmartAccount \in {None, Some(TRUE)}
               THEN smart = {1} /\ plain = {}
               ELSE plain = {1} /\ smart = {}
        /\ frame[p].walletClient # None =>
             Wallet(p).address =
               IF Cfg(p).useSmartAccount = Some(FALSE) THEN EoaAddress ELSE SmartAddress

C16_Witness ==
  /\ Done(1)
  /\ Cfg(1).useSmartAccount = None
  /\ CallsOf(1, "getSmartAccountWalletClient") = {1}
  /\ Len(calls[1]) > 3

\* The step of publishOps an external call belongs to: 1 wallet resolution,
\* 2 target-space resolution, 3 governance lookup, 4 personal or DAO publish
\* (the DAO branch starts with the reverse lookup), 5 transaction submission,
\* 6 confirmation wait.  A receipt wait belongs with the submission before it.
StageOf(p, i) ==
  LET c == calls[p][i]
  IN  CASE c.api \in {"getSmartAccountWalletClient", "getWalletClient"} -> 1
        [] c.api \in {"hasSpace", "readContract"} -> 2
        [] c.api = "sendTransaction" -> IF i \in CreateSends(p) THEN 2 ELSE 5
        [] c.api = "waitForTransactionReceipt" ->
             IF i > 1 /\ (i - 1) \in CreateSends(p) THEN 2 ELSE 6
        [] c.api = "gql" -> IF c.arg[1] = "space" THEN 3 ELSE 4
        [] c.api \in {"publishEdit", "proposeEdit"} -> 4

\* The external calls an invocation can make, one kind per await of the code.
CallKind(p, i) == <<calls[p][i].api, StageOf(p, i)>>

\* C20: within one invocation the steps occur in the order wallet
\* resolution, target-space resolution, governance lookup, exactly one of
\* personal publish or DAO publish, transaction submission, confirmation
\* wait, result; a step starts only after the previous one has completed and
\* no step is entered more than once.
C20_StepOrder ==
  \A p \in Procs :
    /\ \A i, j \in DOMAIN calls[p] :
         i < j => /\ StageOf(p, i) <= StageOf(p, j)
                  /\ calls[p][i].ok
                  /\ CallKind(p, i) # CallKind(p, j)
    /\ \A i, j \in DOMAIN calls[p] :
         (i < j /\ StageOf(p, i) = 2 /\ StageOf(p, j) = 2) =>
           <<calls[p][i].api, calls[p][j].api>> \in
             {<<"hasSpace", "sendTransaction">>, <<"hasSpace", "waitForTransactionReceipt">>,
              <<"hasSpace", "readContract">>,
              <<"sendTransaction", "waitForTransactionReceipt">>,
              <<"sendTransaction", "readContract">>,
              <<"waitForTransactionReceipt", "readContract">>}
    /\ \A i \in DOMAIN calls[p] :
         StageOf(p, i) > 1 => \E j \in DOMAIN calls[p] : j < i /\ StageOf(p, j) = 1
    /\ \A i \in DOMAIN calls[p] :
         StageOf(p, i) > 3 => \E j \in DOMAIN calls[p] : j < i /\ StageOf(p, j) = 3
    /\ \A i \in DOMAIN calls[p] :
         StageOf(p, i) > 4 => \E j \in PublisherCalls(p) : j < i
    /\ \A i \in DOMAIN calls[p] :
         StageOf(p, i) = 6 => (i - 1) \in EditSends(p)
    /\ CallsOf(p, "publishEdit") = {} \/ CallsOf(p, "proposeEdit") = {}
    /\ CallsOf(p, "publishEdit") # {} => GqlCalls(p, "spaces") = {}
    /\ frame[p].result # None => Done(p)
    /\ Succeeded(p) =>
         /\ Len(calls[p]) > 0
         /\ StageOf(p, Len(calls[p])) = 6
         /\ calls[p][Len(calls[p])].ok

C20_Witness ==
  /\ Succeeded(1)
  /\ CreateSends(1) # {}
  /\ Len(calls[1]) = 9

\* ------------------------------------------- two successive invocations
\* A caller that invokes publishOps and, once that call has returned with
\* success, invokes it again with the identical config (same batch, same
\* target).
RepeatConfigs ==
  {cfg \in Configs :
     /\ cfg.ops = <<"op1">>
     /\ cfg.useSmartAccount = None /\ cfg.network = None
     /\ cfg.spaceId \in {"", DaoId}}

FirstCall ==
  /\ frame[1].pc = "idle"
  /\ \E cfg \in RepeatConfigs :
       Set(1, [IdleFrame EXCEPT !.pc = "wallet", !.config = Some(cfg)])
  /\ UNCHANGED <<calls, registry, txCount, editCount, daoMembers, graph, helper>>

SecondCall ==
  /\ Succeeded(1)
  /\ frame[2].pc = "idle"
  /\ Set(2, [IdleFrame EXCEPT !.pc = "wallet", !.config = frame[1].config])
  /\ UNCHANGED <<calls, registry, txCount, editCount, daoMembers, graph, helper>>

NextTwice == FirstCall \/ SecondCall \/ Run(1) \/ Run(2)

SpecTwice == Init /\ [][NextTwice]_vars

\* C14: no deduplication: when two successive invocations with an identical
\* batch and target both succeed, each has called its publisher once and
\* submitted its own edit transaction, and the two results name two edits
\* and two transactions.
C14_NoDeduplication ==
  (Succeeded(1) /\ Succeeded(2) /\ frame[1].config = frame[2].config) =>
    /\ \A p \in Procs :
         /\ Cardinality(PublisherCalls(p)) = 1
         /\ Cardinality(EditSends(p)) = 1
         /\ \A i \in PublisherCalls(p) : calls[p][i].arg.ops = Cfg(p).ops
    /\ Result(1).editId # Result(2).editId
    /\ Result(1).cid # Result(2).cid
    /\ Result(1).transactionHash # Result(2).transactionHash
    /\ editCount = 2
    /\ txCount >= 2

C14_Witness ==
  /\ Succeeded(1) /\ Succeeded(2)
  /\ frame[1].config = frame[2].config
  /\ Cfg(1).ops # <<>>
  /\ Result(1).spaceId = Result(2).spaceId
  /\ Result(1).editId # Result(2).editId

\* ------------------------------------- duplicate-check and prompt helpers
\* Re-prompts for a different name in one promptProperty/promptType call.
MaxRounds == 2

\* search(query: ..., first: 5)
First == 5

\* A string is the sequence of its characters.
Lower(c) ==
  CASE c = "T" -> "t"
    [] c = "B" -> "b"
    [] c = "Y" -> "y"
    [] c = "N" -> "n"
    [] OTHER -> c

RECURSIVE ToLowerCase(_)
ToLowerCase(s) ==
  IF s = <<>> THEN <<>> ELSE <<Lower(Head(s))>> \o ToLowerCase(Tail(s))

RECURSIVE TrimStart(_)
TrimStart(s) == IF s # <<>> /\ Head(s) = " " THEN TrimStart(Tail(s)) ELSE s

RECURSIVE TrimEnd(_)
TrimEnd(s) ==
  IF s # <<>> /\ s[Len(s)] = " " THEN TrimEnd(SubSeq(s, 1, Len(s) - 1)) ELSE s

\* answer.trim()
Trim(s) == TrimEnd(TrimStart(s))

StartsWith(s, prefix) ==
  Len(s) >= Len(prefix) /\ SubSeq(s, 1, Len(prefix)) = prefix

NameTitle == <<"T", "i", "t", "l", "e">>
NameTitleLower == <<"t", "i", "t", "l", "e">>
NameBook == <<"B", "o", "o", "k">>

\* Lines the user types at a name prompt and at the reuse prompt.
TypedNames == {NameTitle, <<" ">> \o NameTitleLower \o <<" ">>, NameBook}
TypedAnswers == {<<"Y", "e", "s">>, <<" ", "y">>, <<"n", "y">>, <<>>}
TypedDataTypes == {<<"TEXT">>, <<"INT64">>}
PropertyIdLists == {<<>>, <<"p1">>}

\* What the knowledge graph may hold: a property, a type of the same name
\* in another letter case, and an entity without a name.
Universe ==
  {[id |-> "p1", name |-> Some(NameTitle), kind |-> "property"],
   [id |-> "t1", name |-> Some(NameTitleLower), kind |-> "type"],
   [id |-> "e1", name |-> None, kind |-> "entity"]}
Graphs == SUBSET Universe

QueryFns == {"queryEntityByName", "queryPropertyByName", "queryTypeByName"}
PromptFns == {"promptProperty", "promptType"}

\* promptProperty checks with queryPropertyByName, promptType with
\* queryTypeByName.
QueryOf(fn) ==
  CASE fn = "promptProperty" -> "queryPropertyByName"
    [] fn = "promptType" -> "queryTypeByName"
    [] OTHER -> fn

\* The search selects id and name only.
Hit(e) == [id |-> e.id, name |-> e.name]

\* Answers of the API to a search: the request fails, or it returns data
\* whose search field is missing or lists at most First entities of the
\* graph, in any order.
SearchOutcomes(g) ==
  {[ok |-> FALSE, search |-> None], [ok |-> TRUE, search |-> None]}
  \cup {[ok |-> TRUE, search |-> Some(hits)] :
          hits \in {h \in SeqsUpTo({Hit(e) : e \in g}, Cardinality(g)) :
                      /\ Len(h) <= First
                      /\ \A i, j \in DOMAIN h : i # j => h[i] # h[j]}}

\* entities.find(e => e.name?.toLowerCase() === name.toLowerCase()), then
\* exact.id or null
RECURSIVE FindExact(_, _)
FindExact(entities, name) ==
  IF entities = <<>> THEN None
  ELSE IF /\ Head(entities).name # None
          /\ ToLowerCase(Head(entities).name[1]) = ToLowerCase(name)
       THEN Some(Head(entities).id)
       ELSE FindExact(Tail(entities), name)

\* The value a query*ByName call returns: null when the request failed.
QueryResult(out, name) ==
  IF out.ok THEN FindExact(Default(out.search, <<>>), name) ELSE None

Logged(api, arg, ret, ok) ==
  Append(helper.log, [api |-> api, arg |-> arg, ret |-> ret, ok |-> ok])

\* A course calls one of the query functions with a name it prompted for.
CallQuery ==
  /\ helper.pc = "idle"
  /\ \E fn \in QueryFns, raw \in TypedNames :
       helper' = [IdleHelper EXCEPT !.fn = fn, !.pc = "query", !.name = Trim(raw)]
  /\ UNCHANGED <<frame, calls, registry, txCount, editCount, daoMembers, graph>>

CallPrompt ==
  /\ helper.pc = "idle"
  /\ \E fn \in PromptFns, ids \in PropertyIdLists :
       helper' = [IdleHelper EXCEPT !.fn = fn, !.pc = "promptName",
                                    !.propertyIds = ids]
  /\ UNCHANGED <<frame, calls, registry, txCount, editCount, daoMembers, graph>>

PromptName ==
  /\ helper.pc = "promptName"
  /\ \E raw \in TypedNames :
       helper' = [helper EXCEPT !.pc = "query", !.name = Trim(raw),
                                !.log = Logged("prompt", "name", Trim(raw), TRUE)]
  /\ UNCHANGED <<frame, calls, registry, txCount, editCount, daoMembers, graph>>

\* if (!existingId) break
AfterQuery(fn, existingId) ==
  IF fn \in QueryFns THEN "done"
  ELSE IF existingId # None THEN "promptReuse"
  ELSE IF fn = "promptProperty" THEN "promptDataType"
  ELSE "create"

\* variant: without the try/catch a failed request leaves the function as
\* an exception
QueryByName_Throwing ==
  /\ helper.pc = "query"
  /\ \E out \in SearchOutcomes(graph) :
       LET id == QueryResult(out, helper.name)
       IN  IF out.ok
           THEN helper' = [helper EXCEPT
                             !.pc = AfterQuery(helper.fn, id),
                             !.existingId = id,
                             !.result = IF helper.fn \in QueryFns THEN Some(id) ELSE None,
                             !.log = Logged("search", helper.name, id, out.ok)]
           ELSE helper' = [helper EXCEPT
                             !.pc = "threw",
                             !.log = Logged("search", helper.name, None, out.ok)]
  /\ UNCHANGED <<frame, calls, registry, txCount, editCount, daoMembers, graph>>

QueryByName ==
  /\ helper.pc = "query"
  /\ \E out \in SearchOutcomes(graph) :
       LET id == QueryResult(out, helper.name)
       IN  helper' = [helper EXCEPT
                        !.pc = AfterQuery(helper.fn, id),
                        !.existingId = id,
                        !.result = IF helper.fn \in QueryFns THEN Some(id) ELSE None,
                        !.log = Logged("search", helper.name, id, out.ok)]
  /\ UNCHANGED <<frame, calls, registry, txCount, editCount, daoMembers, graph>>

\* variant: only a lower-case y accepts
ReuseAccepted_CaseSensitive(choice) == StartsWith(choice, <<"y">>)
\* choice.toLowerCase().startsWith("y")
ReuseAccepted(choice) == StartsWith(ToLowerCase(choice), <<"y">>)

PromptReuse ==
  /\ helper.pc = "promptReuse"
  /\ \E raw \in TypedAnswers :
       LET choice == Trim(raw)
       IN  IF ReuseAccepted(choice)
           THEN helper' = [helper EXCEPT
                             !.pc = "done",
                             !.result = Some([id |-> helper.existingId[1], ops |-> <<>>]),
                             !.log = Logged("prompt", "reuse", choice, TRUE)]
           ELSE helper' = [helper EXCEPT
                             !.pc = "promptDifferent",
                             !.log = Logged("prompt", "reuse", choice, TRUE)]
  /\ UNCHANGED <<frame, calls, registry, txCount, editCount, daoMembers, graph>>

\* variant: the different name is taken without a new duplicate check
PromptDifferent_NoRecheck ==
  /\ helper.pc = "promptDifferent"
  /\ helper.rounds < MaxRounds
  /\ \E raw \in TypedNames :
       helper' = [helper EXCEPT
                    !.pc = IF helper.fn = "promptProperty"
                           THEN "promptDataType" ELSE "create",
                    !.name = Trim(raw),
                    !.rounds = @ + 1,
                    !.log = Logged("prompt", "different", Trim(raw), TRUE)]
  /\ UNCHANGED <<frame, calls, registry, txCount, editCount, daoMembers, graph>>

PromptDifferent ==
  /\ helper.pc = "promptDifferent"
  /\ helper.rounds < MaxRounds
  /\ \E raw \in TypedNames :
       helper' = [helper EXCEPT
                    !.pc = "query",
                    !.name = Trim(raw),
                    !.rounds = @ + 1,
                    !.log = Logged("prompt", "different", Trim(raw), TRUE)]
  /\ UNCHANGED <<frame, calls, registry, txCount, editCount, daoMembers, graph>>

PromptDataType ==
  /\ helper.pc = "promptDataType"
  /\ \E raw \in TypedDataTypes :
       helper' = [helper EXCEPT
                    !.pc = "create",
                    !.dataType = Trim(raw),
                    !.log = Logged("prompt", "dataType", Trim(raw), TRUE)]
  /\ UNCHANGED <<frame, calls, registry, txCount, editCount, daoMembers, graph>>

\* Graph.createProperty / Graph.createType: a new id and the ops creating it.
NewId == "n1"
Created(kind, name) ==
  [id |-> NewId, ops |-> <<[type |-> kind, id |-> NewId, name |-> name]>>]

Create ==
  /\ helper.pc = "create"
  /\ IF helper.fn = "promptProperty"
     THEN helper' = [helper EXCEPT
                       !.pc = "done",
                       !.result = Some(Created("createProperty", helper.name)),
                       !.log = Logged("createProperty",
                                      [name |-> helper.name, dataType |-> helper.dataType],
                                      Created("createProperty", helper.name), TRUE)]
     ELSE helper' = [helper EXCEPT
                       !.pc = "done",
                       !.result = Some(Created("createType", helper.name)),
                       !.log = Logged("createType",
                                      [name |-> helper.name, properties |-> helper.propertyIds],
                                      Created("createType", helper.name), TRUE)]
  /\ UNCHANGED <<frame, calls, registry, txCount, editCount, daoMembers, graph>>

InitPrompt ==
  /\ frame = [p \in Procs |-> IdleFrame]
  /\ calls = [p \in Procs |-> <<>>]
  /\ registry = [a \in Addresses |-> FALSE]
  /\ txCount = 0
  /\ editCount = 0
  /\ daoMembers = {}
  /\ graph \in Graphs
  /\ helper = IdleHelper

NextPrompt ==
  \/ CallQuery
  \/ CallPrompt
  \/ PromptName
  \/ QueryByName
  \/ PromptReuse
  \/ PromptDifferent
  \/ PromptDataType
  \/ Create

SpecPrompt == InitPrompt /\ [][NextPrompt]_vars

\* ------------------------------------------------ helper observations
HelperLog == helper.log
Searches == {i \in DOMAIN HelperLog : HelperLog[i].api = "search"}
Creates ==
  {i \in DOMAIN HelperLog : HelperLog[i].api \in {"createProperty", "createType"}}
Asked(i, question) ==
  HelperLog[i].api = "prompt" /\ HelperLog[i].arg = question
\* An answer beginning with y or Y.
BeginsWithY(answer) == answer # <<>> /\ answer[1] \in {"y", "Y"}
\* The kind of graph entity each query function is documented to look for.
WantedKinds(fn) ==
  CASE QueryOf(fn) = "queryPropertyByName" -> {"property"}
    [] QueryOf(fn) = "queryTypeByName" -> {"type"}
    [] OTHER -> {"property", "type", "entity"}
\* Graph entities of a wanted kind with the given name, letter case aside.
Existing(fn, name) ==
  {e \in graph : /\ e.kind \in WantedKinds(fn)
                 /\ e.name # None
                 /\ ToLowerCase(e.name[1]) = ToLowerCase(name)}

\* C17: a query function returns an id only of an existing entity, property
\* or type (respectively) that has the given name; it returns null when no
\* such entity, property or type exists.
C17_Original ==
  \A i \in Searches :
    HelperLog[i].ret # None =>
      \E e \in Existing(helper.fn, HelperLog[i].arg) : e.id = HelperLog[i].ret[1]

\* C18: when the duplicate check found the name and the answer to the reuse
\* question begins with y or Y, the helper has returned the found id with an
\* empty ops list and has called no create function.
C18_ReuseAccepted ==
  \A i \in DOMAIN HelperLog :
    (Asked(i, "reuse") /\ BeginsWithY(HelperLog[i].ret)) =>
      /\ i = Len(HelperLog)
      /\ i - 1 \in Searches
      /\ HelperLog[i - 1].ret # None
      /\ helper.pc = "done"
      /\ helper.result = Some([id |-> HelperLog[i - 1].ret[1], ops |-> <<>>])
      /\ Creates = {}

C18_Witness ==
  /\ helper.fn \in PromptFns
  /\ helper.pc = "done"
  /\ HelperLog # <<>>
  /\ Asked(Len(HelperLog), "reuse")
  /\ HelperLog[Len(HelperLog)].ret = <<"Y", "e", "s">>
  /\ helper.result = Some([id |-> "p1", ops |-> <<>>])

\* The last duplicate check before entry i of the log.
LastSearchBefore(i) ==
  LET before == {j \in Searches : j < i}
  IN  IF before = {} THEN 0 ELSE CHOOSE j \in before : \A k \in before : k <= j

\* C19: a create call is made only for the name whose most recent duplicate
\* check reported no existing id; a declined reuse is followed by the prompt
\* for a different name and a duplicate check of that name; and the helper
\* returns only after a create call or an accepted reuse.
C19_CreateOnlyWhenUnique ==
  /\ \A i \in Creates :
       LET j == LastSearchBefore(i)
       IN  /\ j > 0
           /\ HelperLog[j].ret = None
           /\ HelperLog[j].arg = HelperLog[i].arg.name
           /\ \A k \in (j + 1)..(i - 1) : Asked(k, "dataType")
  /\ \A i \in DOMAIN HelperLog :
       (Asked(i, "reuse") /\ ~BeginsWithY(HelperLog[i].ret)) =>
         /\ i = Len(HelperLog) => helper.pc = "promptDifferent"
         /\ i < Len(HelperLog) => Asked(i + 1, "different")
         /\ i + 1 = Len(HelperLog) =>
              helper.pc = "query" /\ helper.name = HelperLog[i + 1].ret
         /\ i + 1 < Len(HelperLog) =>
              i + 2 \in Searches /\ HelperLog[i + 2].arg = HelperLog[i + 1].ret
  /\ (helper.fn \in PromptFns /\ helper.pc = "done") =>
       \/ Len(HelperLog) \in Creates
       \/ Asked(Len(HelperLog), "reuse") /\ BeginsWithY(HelperLog[Len(HelperLog)].ret)

C19_Witness ==
  /\ helper.fn \in PromptFns
  /\ helper.pc = "done"
  /\ helper.rounds >= 1
  /\ Len(HelperLog) \in Creates
  /\ \E i \in DOMAIN HelperLog : Asked(i, "reuse") /\ HelperLog[i].ret = <<"n", "y">>

\* A call of invocation p threw, or its body threw an Error of its own.
SomeCallFailed(p) == \E i \in DOMAIN calls[p] : ~calls[p][i].ok

\* C21: every failure is terminal: once a step has failed the invocation has
\* returned success:false, the failed call is the last one it made, and from
\* then on it makes no external call and changes none of its state.
C21_FailureTerminal ==
  /\ [](\A p \in Procs :
          SomeCallFailed(p) =>
            /\ Failed(p)
            /\ \A i \in DOMAIN calls[p] : ~calls[p][i].ok => i = Len(calls[p]))
  /\ [][\A p \in Procs :
          (SomeCallFailed(p) \/ Failed(p)) =>
            /\ calls'[p] = calls[p]
            /\ frame'[p] = frame[p]]_vars

C21_Witness ==
  /\ Failed(1)
  /\ CallsOf(1, "proposeEdit") # {}
  /\ \A i \in CallsOf(1, "proposeEdit") : ~calls[1][i].ok
  /\ Len(calls[1]) = 4

\* ------------------------------------------------ concurrent invocations
\* Two invocations in flight at once for the same wallet, the first with no
\* spaceId, the second with none or with the DAO as target: their awaits
\* interleave in any order.
ConcurrentConfigs ==
  {cfg \in Configs :
     /\ cfg.ops = <<"op1">>
     /\ cfg.useSmartAccount = None /\ cfg.network = None
     /\ cfg.spaceId \in {"", DaoId}}

InvokeConcurrent(p) ==
  /\ frame[p].pc = "idle"
  /\ \E cfg \in ConcurrentConfigs :
       /\ p = 1 => cfg.spaceId = ""
       /\ Set(p, [IdleFrame EXCEPT !.pc = "wallet", !.config = Some(cfg)])
  /\ UNCHANGED <<calls, registry, txCount, editCount, daoMembers, graph, helper>>

NextConcurrent == \E p \in Procs : InvokeConcurrent(p) \/ Run(p)

SpecConcurrent == Init /\ [][NextConcurrent]_vars

\* Invocation p saw hasSpace = false and its createSpace transaction was
\* accepted.
CreatedOwnSpace(p) ==
  /\ frame[p].hasSpace = Some(FALSE)
  /\ \E i \in CreateSends(p) : calls[p][i].ok

\* C22: ensurePersonalSpace holds no mutual exclusion: an invocation that
\* observed hasSpace = false can submit its createSpace transaction whatever
\* the other invocation has done, and when both invocations did so two
\* transactions were submitted.
C22_Uncoordinated ==
  /\ \A p \in Procs :
       frame[p].pc = "createSend" =>
         frame[p].hasSpace = Some(FALSE) /\ ENABLED CreateSpaceSend(p)
  /\ (\A p \in Procs : CreatedOwnSpace(p)) => txCount >= 2

C22_Witness ==
  /\ \A p \in Procs : CreatedOwnSpace(p)
  /\ frame[1].walletClient = frame[2].walletClient
  /\ Cfg(1).spaceId = "" /\ Cfg(2).spaceId = ""
  /\ txCount = 2

\* ------------------------------------------- membership changing meanwhile
\* One invocation, with no spaceId or with the DAO as target, while the
\* DAO's listing changes on chain after the governance lookup and before the
\* edit transaction is submitted.
DaoConfigs ==
  {cfg \in Configs :
     /\ cfg.ops = <<"op1">>
     /\ cfg.useSmartAccount = None /\ cfg.network = None
     /\ cfg.spaceId \in {"", DaoId}}

InvokeDao(p) ==
  /\ frame[p].pc = "idle"
  /\ \E cfg \in DaoConfigs :
       Set(p, [IdleFrame EXCEPT !.pc = "wallet", !.config = Some(cfg)])
  /\ UNCHANGED <<calls, registry, txCount, editCount, daoMembers, graph, helper>>

ChangeMembership ==
  /\ frame[1].pc \in {"gqlCaller", "proposeEdit", "sendTx"}
  /\ \E listed \in (SUBSET PersonalIds) \ {daoMembers} : daoMembers' = listed
  /\ UNCHANGED <<frame, calls, registry, txCount, editCount, graph, helper>>

NextMembership == InvokeDao(1) \/ Run(1) \/ ChangeMembership

SpecMembership == Init /\ [][NextMembership]_vars

\* The ids the governance lookup's snapshot lists.
SnapshotIds(p) ==
  ListedIds(Space(p).membersList) \cup ListedIds(Space(p).editorsList)

\* C23: the DAO's member and editor lists are read once per invocation and
\* the decision rests on that snapshot alone: the proposal is published only
\* if the snapshot lists the caller, whatever is listed on chain by then, and
\* once the snapshot lists the caller nothing but a failing external call
\* makes the invocation fail.
C23_SnapshotOnly ==
  \A p \in Procs :
    /\ Cardinality(GqlCalls(p, "space")) <= 1
    /\ CallsOf(p, "proposeEdit") # {} =>
         /\ Cardinality(GqlCalls(p, "space")) = 1
         /\ frame[p].callerSpaceId \in SnapshotIds(p)
    /\ (/\ ReportedDao(p)
        /\ CallerHasPersonal(p)
        /\ frame[p].callerSpaceId \in SnapshotIds(p)
        /\ Done(p)
        /\ AllCallsOk(p)) =>
         /\ Succeeded(p)
         /\ CallsOf(p, "proposeEdit") # {}
         /\ EditSends(p) # {}

C23_Witness ==
  /\ Succeeded(1)
  /\ ReportedDao(1)
  /\ frame[1].callerSpaceId \in SnapshotIds(1)
  /\ frame[1].callerSpaceId \notin daoMembers
  /\ CallsOf(1, "proposeEdit") # {}
  /\ EditSends(1) # {}

\* The confirmation wait of invocation p for the given hash, returned or thrown.
WaitEntries(hash) ==
  {[api |-> "waitForTransactionReceipt", arg |-> hash, ok |-> b,
    at |-> "TESTNET_RPC_URL"] : b \in BOOLEAN}

\* C24: after the edit transaction is submitted the invocation has not
\* returned while the confirmation is pending, its only next step is the
\* end of the wait for the submitted hash, and a success result follows a
\* wait that returned for the very hash the result carries.
C24_WaitBeforeSuccess ==
  /\ [](\A p \in Procs :
          /\ frame[p].pc = "waitTx" =>
               /\ ~Returned(p)
               /\ Len(calls[p]) \in EditSends(p)
               /\ calls[p][Len(calls[p])].ok
          /\ Succeeded(p) =>
               /\ Len(calls[p]) >= 2
               /\ calls[p][Len(calls[p])] =
                    [api |-> "waitForTransactionReceipt",
                     arg |-> Result(p).transactionHash, ok |-> TRUE,
                     at |-> "TESTNET_RPC_URL"]
               /\ Len(calls[p]) - 1 \in EditSends(p)
               /\ calls[p][Len(calls[p]) - 1].ok)
  /\ [][\A p \in Procs :
          (frame[p].pc = "waitTx" /\ frame'[p] # frame[p]) =>
            /\ frame'[p].pc = "done"
            /\ \E entry \in WaitEntries(frame[p].txHash) :
                 calls'[p] = Append(calls[p], entry)]_vars

C24_Witness ==
  /\ Succeeded(1)
  /\ CreateSends(1) # {}
  /\ Result(1).transactionHash = 2
  /\ calls[1][Len(calls[1])].arg = 2

\* The position of the governance lookup's answer in the call log.
SpaceLookup(p) == CHOOSE i \in GqlCalls(p, "space") : calls[p][i].ok

\* C25: routing looks only at whether the reported type is exactly
\* "PERSONAL": for any other reported type the next call is the reverse
\* lookup, the personal-space publisher is never called and proposeEdit is
\* the only publisher; for "PERSONAL" the next call is publishEdit.
C25_RoutingByExactType ==
  \A p \in Procs :
    SpaceReported(p) =>
      LET i == SpaceLookup(p)
      IN  IF Space(p).type = "PERSONAL"
          THEN /\ GqlCalls(p, "spaces") = {}
               /\ CallsOf(p, "proposeEdit") = {}
               /\ Len(calls[p]) > i => calls[p][i + 1].api = "publishEdit"
               /\ frame[p].pc # "done" => Len(calls[p]) > i \/ frame[p].pc = "publishEdit"
          ELSE /\ CallsOf(p, "publishEdit") = {}
               /\ Len(calls[p]) > i =>
                    calls[p][i + 1] =
                      [api |-> "gql", arg |-> <<"spaces", Wallet(p).address>>,
                       ok |-> calls[p][i + 1].ok, at |-> "API_URL"]
               /\ frame[p].pc # "done" => Len(calls[p]) > i \/ frame[p].pc = "gqlCaller"
               /\ CallsOf(p, "proposeEdit") # {} => CallerListed(p)

C25_Witness ==
  /\ Succeeded(1)
  /\ SpaceReported(1)
  /\ Space(1).type = "personal"
  /\ CallsOf(1, "proposeEdit") # {}
  /\ CallsOf(1, "publishEdit") = {}

\* C26: the batch reaches the publisher unchanged and in one call: every
\* publisher call carries exactly the operations of the config, in their
\* order, at most one publisher call is made (exactly one on success), and
\* the config the caller passed is never changed by the invocation.
C26_BatchUnchanged ==
  /\ [](\A p \in Procs :
          /\ \A i \in PublisherCalls(p) : calls[p][i].arg.ops = Cfg(p).ops
          /\ Cardinality(PublisherCalls(p)) <= 1
          /\ Succeeded(p) => Cardinality(PublisherCalls(p)) = 1)
  /\ [][\A p \in Procs :
          frame[p].pc # "idle" => frame'[p].config = frame[p].config]_vars

C26_Witness ==
  /\ Succeeded(1)
  /\ Cfg(1).ops = <<"op1", "op2">>
  /\ \E i \in CallsOf(1, "publishEdit") : calls[1][i].arg.ops = <<"op1", "op2">>

\* What the publisher called by invocation p returned.
Published(p) == frame[p].pub[1]

\* C27: the edit transaction carries the call target and calldata the
\* invocation's own publisher returned; a success result carries that
\* publisher's editId and cid and the hash of the edit submission, which is
\* the last transaction sent and never the createSpace transaction's hash.
C27_PublisherOutputUsed ==
  \A p \in Procs :
    /\ \A i \in EditSends(p) :
         /\ i - 1 \in PublisherCalls(p)
         /\ calls[p][i - 1].ok
         /\ frame[p].pub # None
         /\ calls[p][i].arg = [to |-> Published(p).to, data |-> Published(p).calldata]
         /\ calls[p][i].arg.to =
              IF calls[p][i - 1].api = "publishEdit" THEN "SPACE_REGISTRY"
                                                     ELSE Space(p).address
         /\ calls[p][i].arg.data[2] = Published(p).editId
    /\ Succeeded(p) =>
         /\ Result(p).editId = Published(p).editId
         /\ Result(p).cid = Published(p).cid
         /\ Result(p).editId = editCount
         /\ Result(p).transactionHash = txCount
         /\ \A j \in CreateSends(p) :
              calls[p][j].ok => calls[p][j + 1].arg # Result(p).transactionHash

C27_Witness ==
  /\ Succeeded(1)
  /\ \E j \in CreateSends(1) : calls[1][j].ok /\ calls[1][j + 1].arg = 1
  /\ Result(1).transactionHash = 2
  /\ Result(1).editId = Published(1).editId

\* The network a config asks for: the option when given, else TESTNET.
RequestedNetwork(cfg) == IF cfg.network = None THEN "TESTNET" ELSE cfg.network[1]

\* C28: the network option reaches the publisher unchanged and nothing
\* else: every publisher call carries the requested network, while every
\* Space Directory query goes to the one API endpoint and every registry
\* read and confirmation wait to the testnet RPC endpoint, whatever the
\* option; the registry read names the wallet address only.
C28_NetworkOnlyToPublisher ==
  \A p \in Procs :
    \A i \in DOMAIN calls[p] :
      /\ i \in PublisherCalls(p) => calls[p][i].arg.network = RequestedNetwork(Cfg(p))
      /\ calls[p][i].api = "gql" => calls[p][i].at = "API_URL"
      /\ calls[p][i].api \in {"readContract", "waitForTransactionReceipt"} =>
           calls[p][i].at = "TESTNET_RPC_URL"
      /\ calls[p][i].api = "readContract" => calls[p][i].arg = Wallet(p).address

C28_Witness ==
  /\ Succeeded(1)
  /\ Cfg(1).network = Some("MAINNET")
  /\ CallsOf(1, "readContract") # {}
  /\ \E i \in CallsOf(1, "publishEdit") : calls[1][i].arg.network = "MAINNET"
  /\ calls[1][Len(calls[1])].at = "TESTNET_RPC_URL"

\* The address of the wallet the config's useSmartAccount option selects.
ResolvedAddress(cfg) ==
  IF cfg.useSmartAccount = Some(FALSE) THEN EoaAddress ELSE SmartAddress

\* The id of the PERSONAL space the reverse lookup returned for the caller.
LookedUpCallerId(p) ==
  LET spaces == frame[p].personalSpaceData[1].spaces[1]
  IN  spaces[CHOOSE i \in DOMAIN spaces : spaces[i].type = "PERSONAL"].id

\* C29: publishEdit is given the resolved wallet address as author;
\* proposeEdit is given as author the caller's personal space id as the
\* reverse lookup returned it, as callerSpaceId and daoSpaceId that id and
\* the target id each behind "0x", and as daoSpaceAddress the address the
\* governance lookup returned.
C29_AuthorByBranch ==
  \A p \in Procs :
    /\ \A i \in CallsOf(p, "publishEdit") :
         /\ calls[p][i].arg.author = ResolvedAddress(Cfg(p))
         /\ calls[p][i].arg.spaceId = frame[p].spaceId
    /\ \A i \in CallsOf(p, "proposeEdit") :
         /\ CallerHasPersonal(p)
         /\ calls[p][i].arg.author = LookedUpCallerId(p)
         /\ calls[p][i].arg.callerSpaceId = <<"0x", LookedUpCallerId(p)>>
         /\ calls[p][i].arg.daoSpaceId = <<"0x", Cfg(p).spaceId>>
         /\ calls[p][i].arg.daoSpaceAddress = frame[p].spaceData[1].space[1].address

C29_Witness ==
  /\ Succeeded(1)
  /\ Cfg(1).useSmartAccount = Some(FALSE)
  /\ \E i \in CallsOf(1, "proposeEdit") :
       /\ calls[1][i].arg.author = PersonalIdOf(EoaAddress)
       /\ calls[1][i].arg.daoSpaceId = <<"0x", DaoId>>
       /\ calls[1][i].arg.daoSpaceAddress = DaoAddress

\* Duplicate checks whose API request failed.
FailedSearches == {i \in Searches : ~HelperLog[i].ok}

\* C30: a failed API request never leaves a query function as an exception:
\* the function returns null, as for a name that does not exist, and
\* promptProperty/promptType go on to create the property/type with the
\* name just checked, without asking about reuse.
C30_FailureIsNull ==
  \A i \in FailedSearches :
    /\ HelperLog[i].ret = None
    /\ helper.fn \in QueryFns =>
         /\ i = Len(HelperLog)
         /\ helper.pc = "done"
         /\ helper.result = Some(None)
    /\ (helper.fn \in PromptFns /\ i = Len(HelperLog)) =>
         /\ helper.pc = IF helper.fn = "promptProperty" THEN "promptDataType" ELSE "create"
         /\ helper.name = HelperLog[i].arg
    /\ (helper.fn \in PromptFns /\ i < Len(HelperLog)) =>
         \/ Asked(i + 1, "dataType")
         \/ i + 1 \in Creates /\ HelperLog[i + 1].arg.name = HelperLog[i].arg
    /\ (helper.fn \in PromptFns /\ helper.pc = "done") =>
         /\ Len(HelperLog) \in Creates
         /\ HelperLog[Len(HelperLog)].arg.name = HelperLog[i].arg
         /\ helper.result # None
         /\ helper.result[1].ops # <<>>

C30_Witness ==
  /\ helper.fn = "promptType"
  /\ helper.pc = "done"
  /\ FailedSearches # {}
  /\ Len(HelperLog) \in Creates
  /\ Existing(helper.fn, helper.name) # {}
====
